---- MODULE Spec2Model ----
(***************************************************************************)
(* JOKKO AI (src/App.py): a FastAPI application with three routes.         *)
(*   GET  /            root()                                              *)
(*   GET  /api/health  health()                                            *)
(*   POST /api/chat    chat(chat_request)                                  *)
(* The handlers read two module-level dicts, SUPPORTED_LANGUAGES and       *)
(* SAMPLE_RESPONSES.  Python dicts are mutable objects, so both are state  *)
(* variables here; a dict is modelled as the sequence of its <<key, value>>*)
(* pairs in insertion order.  A str is the sequence of its characters when *)
(* the code looks inside it (the message, the keywords) and a TLA+ string  *)
(* when the code only passes it along (canned texts, language codes).      *)
(* A float confidence c is the integer 100 * c.                            *)
(***************************************************************************)
EXTENDS Integers, Sequences, FiniteSets, TLC

\* requests[i] is the i-th request received, outcomes[i] what was sent back
\* for it, faults[i] the exception the interpreter raised inside its handler
\* (<<>> when none, <<e>> otherwise)
VARIABLES SUPPORTED_LANGUAGES, SAMPLE_RESPONSES, requests, outcomes, faults

vars == <<SUPPORTED_LANGUAGES, SAMPLE_RESPONSES, requests, outcomes, faults>>

tables == <<SUPPORTED_LANGUAGES, SAMPLE_RESPONSES>>

-----------------------------------------------------------------------------
(* Bounds of the model.                                                    *)

\* most words a message is put together from
MaxWords == 2

\* most requests the server receives in one behaviour of Spec
MaxRequests == 3

-----------------------------------------------------------------------------
(* The module-level tables as the source text writes them.                 *)

SupportedLanguagesLiteral ==
    << <<"it", "Italiano">>, <<"fr", "Français">>, <<"en", "English">>,
       <<"wo", "Wolof">>, <<"bm", "Bambara">>, <<"ha", "Hausa">>,
       <<"am", "Amarico">>, <<"ti", "Tigrinya">>, <<"lg", "Lingala">>,
       <<"ff", "Pulaar">>, <<"so", "Soninke">> >>

\* U+2019 in the English default is written \\u2019: the lexer accepts no
\* such character inside a string.
SampleResponsesLiteral ==
    << <<"it", <<
         <<"permesso_soggiorno", "Per il permesso di soggiorno devi recarti in Questura con passaporto, foto tessera, marca da bollo da €16...">>,
         <<"lavoro", "Per cercare lavoro in Italia puoi usare i centri per l'impiego, InfoJobs, agenzie interinali...">>,
         <<"casa", "Per trovare casa puoi usare Immobiliare.it, Subito, Idealista o contattare associazioni locali...">>,
         <<"sanita", "Il SSN garantisce cure gratuite: chiedi la tessera sanitaria alla ASL e scegli un medico di base...">>,
         <<"diritti", "Hai diritto a: assistenza legale gratuita, protezione dalla discriminazione, accesso alla sanità e istruzione...">>,
         <<"default", "Ciao! Sono JOKKO AI. Posso aiutarti su: permesso di soggiorno, lavoro, casa, sanità, diritti. Dimmi pure!">> >> >>,
       <<"en", <<
         <<"permesso_soggiorno", "For residence permit, go to Questura with passport, ID photo, €16 tax stamp...">>,
         <<"lavoro", "To find work in Italy: register at job centers, use InfoJobs, temp agencies...">>,
         <<"casa", "To find a house, use Immobiliare.it, Idealista, or contact local associations...">>,
         <<"sanita", "Italy provides free healthcare: get your health card at ASL and choose a GP...">>,
         <<"diritti", "You have the right to free legal aid, education, work and healthcare...">>,
         <<"default", "Hello! I\\u2019m JOKKO AI. I can help with: residence permit, work, housing, healthcare, rights.">> >> >>,
       <<"fr", <<
         <<"permesso_soggiorno", "Pour le titre de séjour, allez à la Questura avec passeport, photos, timbre fiscal de 16€...">>,
         <<"lavoro", "Pour trouver du travail : centres d'emploi, InfoJobs, agences intérimaires...">>,
         <<"casa", "Utilisez Immobiliare.it, Idealista ou contactez les associations locales...">>,
         <<"sanita", "Le SSN fournit des soins gratuits : demandez votre carte sanitaire à l'ASL...">>,
         <<"diritti", "Vous avez droit à : aide juridique, santé, travail régulier, éducation...">>,
         <<"default", "Salut ! Je suis JOKKO AI. Je peux vous aider avec : séjour, travail, logement, santé, droits.">> >> >> >>

-----------------------------------------------------------------------------
(* Python built-ins the handlers use.                                      *)

\* k in d, for a dict d
Has(d, k) == \E i \in 1..Len(d) : d[i][1] = k

\* d[k], for a key d holds
Get(d, k) == d[CHOOSE i \in 1..Len(d) : d[i][1] = k][2]

\* list(d.keys())
Keys(d) == [i \in 1..Len(d) |-> d[i][1]]

\* the KeyError d[k] raises for a key d lacks; str(KeyError(k)) is repr(k)
KeyError(k) == [type |-> "KeyError", str |-> "'" \o k \o "'"]

\* str.lower() of one character: the cased characters of the alphabet the
\* messages are written in, each with a one-character lowercase
LowerMap ==
    "A" :> "a" @@ "B" :> "b" @@ "C" :> "c" @@ "D" :> "d" @@ "E" :> "e" @@
    "F" :> "f" @@ "G" :> "g" @@ "H" :> "h" @@ "I" :> "i" @@ "J" :> "j" @@
    "K" :> "k" @@ "L" :> "l" @@ "M" :> "m" @@ "N" :> "n" @@ "O" :> "o" @@
    "P" :> "p" @@ "Q" :> "q" @@ "R" :> "r" @@ "S" :> "s" @@ "T" :> "t" @@
    "U" :> "u" @@ "V" :> "v" @@ "W" :> "w" @@ "X" :> "x" @@ "Y" :> "y" @@
    "Z" :> "z" @@ "É" :> "é"

\* lowercasing that knows the letters A-Z only
LowerCharAscii(c) == IF c \in DOMAIN LowerMap /\ c # "É" THEN LowerMap[c] ELSE c

LowerChar(c) == IF c \in DOMAIN LowerMap THEN LowerMap[c] ELSE c

\* s.lower()
lower(s) == [i \in 1..Len(s) |-> LowerChar(s[i])]

\* k in s, for strs: k is a substring of s
In(k, s) == \E i \in 0..(Len(s) - Len(k)) : SubSeq(s, i + 1, i + Len(k)) = k

\* str.upper() on the same alphabet; no handler calls it, the requests that
\* differ in letter case are written with it
UpperMap ==
    "a" :> "A" @@ "b" :> "B" @@ "c" :> "C" @@ "d" :> "D" @@ "e" :> "E" @@
    "f" :> "F" @@ "g" :> "G" @@ "h" :> "H" @@ "i" :> "I" @@ "j" :> "J" @@
    "k" :> "K" @@ "l" :> "L" @@ "m" :> "M" @@ "n" :> "N" @@ "o" :> "O" @@
    "p" :> "P" @@ "q" :> "Q" @@ "r" :> "R" @@ "s" :> "S" @@ "t" :> "T" @@
    "u" :> "U" @@ "v" :> "V" @@ "w" :> "W" @@ "x" :> "X" @@ "y" :> "Y" @@
    "z" :> "Z" @@ "é" :> "É"

upper(s) == [i \in 1..Len(s) |-> IF s[i] \in DOMAIN UpperMap THEN UpperMap[s[i]] ELSE s[i]]

\* any(k in message for k in ks)
any(ks, message) == \E i \in 1..Len(ks) : In(ks[i], message)

-----------------------------------------------------------------------------
(* Results of a handler.  A try body either returns a value or raises.     *)

Return(v) == [raised |-> FALSE, value |-> v]

Raise(e) == [raised |-> TRUE, exc |-> e]

\* the model ChatResponse, lines 12-17
ChatResponse(response, language, sources, category, confidence) ==
    [response |-> response, language |-> language, sources |-> sources,
     category |-> category, confidence |-> confidence]

\* what the framework sends for a returned value
Ok(body) == [status |-> 200, body |-> body]

\* what the framework sends for raise HTTPException(status_code, detail)
HTTPException(status_code, detail) ==
    [status |-> status_code, body |-> [detail |-> detail]]

\* a request still waiting for its handler
Pending == [status |-> 0, body |-> <<>>]

-----------------------------------------------------------------------------
(* POST /api/chat                                                          *)

\* the keyword lists of lines 89, 93, 97, 101 and 105
permesso_keywords ==
    << <<"p","e","r","m","e","s","s","o">>, <<"s","o","g","g","i","o","r","n","o">>,
       <<"s","é","j","o","u","r">>, <<"p","e","r","m","i","t">> >>

lavoro_keywords ==
    << <<"l","a","v","o","r","o">>, <<"j","o","b">>, <<"w","o","r","k">>,
       <<"e","m","p","l","o","i">> >>

casa_keywords ==
    << <<"c","a","s","a">>, <<"h","o","u","s","e">>,
       <<"l","o","g","e","m","e","n","t">>, <<"r","e","n","t">> >>

sanita_keywords ==
    << <<"s","a","l","u","t","e">>, <<"h","e","a","l","t","h">>,
       <<"s","a","n","t","é">>, <<"d","o","c","t","o","r">> >>

diritti_keywords ==
    << <<"d","i","r","i","t","t","i">>, <<"r","i","g","h","t","s">>,
       <<"d","r","o","i","t","s">>, <<"l","e","g","a","l">> >>

\* Branch with the work test of line 93 ahead of the permit test of line 89
BranchWorkFirst(message) ==
    IF any(lavoro_keywords, message)
    THEN [key |-> "lavoro", category |-> "lavoro", confidence |-> 85]
    ELSE IF any(permesso_keywords, message)
    THEN [key |-> "permesso_soggiorno", category |-> "permesso_soggiorno", confidence |-> 90]
    ELSE IF any(casa_keywords, message)
    THEN [key |-> "casa", category |-> "casa", confidence |-> 85]
    ELSE IF any(sanita_keywords, message)
    THEN [key |-> "sanita", category |-> "sanita", confidence |-> 85]
    ELSE IF any(diritti_keywords, message)
    THEN [key |-> "diritti", category |-> "diritti", confidence |-> 85]
    ELSE [key |-> "default", category |-> "generale", confidence |-> 70]

\* Branch with the else of lines 109-112 labelled default, as its key is
BranchDefaultLabel(message) ==
    IF any(permesso_keywords, message)
    THEN [key |-> "permesso_soggiorno", category |-> "permesso_soggiorno", confidence |-> 90]
    ELSE IF any(lavoro_keywords, message)
    THEN [key |-> "lavoro", category |-> "lavoro", confidence |-> 85]
    ELSE IF any(casa_keywords, message)
    THEN [key |-> "casa", category |-> "casa", confidence |-> 85]
    ELSE IF any(sanita_keywords, message)
    THEN [key |-> "sanita", category |-> "sanita", confidence |-> 85]
    ELSE IF any(diritti_keywords, message)
    THEN [key |-> "diritti", category |-> "diritti", confidence |-> 85]
    ELSE [key |-> "default", category |-> "default", confidence |-> 70]

\* Branch with the key of line 102 spelt as the Italian word
BranchAccentedKey(message) ==
    IF any(permesso_keywords, message)
    THEN [key |-> "permesso_soggiorno", category |-> "permesso_soggiorno", confidence |-> 90]
    ELSE IF any(lavoro_keywords, message)
    THEN [key |-> "lavoro", category |-> "lavoro", confidence |-> 85]
    ELSE IF any(casa_keywords, message)
    THEN [key |-> "casa", category |-> "casa", confidence |-> 85]
    ELSE IF any(sanita_keywords, message)
    THEN [key |-> "sanità", category |-> "sanita", confidence |-> 85]
    ELSE IF any(diritti_keywords, message)
    THEN [key |-> "diritti", category |-> "diritti", confidence |-> 85]
    ELSE [key |-> "default", category |-> "generale", confidence |-> 70]

\* the if/elif chain of lines 89-112: the key looked up in answers, the
\* category and the confidence
Branch(message) ==
    IF any(permesso_keywords, message)
    THEN [key |-> "permesso_soggiorno", category |-> "permesso_soggiorno", confidence |-> 90]
    ELSE IF any(lavoro_keywords, message)
    THEN [key |-> "lavoro", category |-> "lavoro", confidence |-> 85]
    ELSE IF any(casa_keywords, message)
    THEN [key |-> "casa", category |-> "casa", confidence |-> 85]
    ELSE IF any(sanita_keywords, message)
    THEN [key |-> "sanita", category |-> "sanita", confidence |-> 85]
    ELSE IF any(diritti_keywords, message)
    THEN [key |-> "diritti", category |-> "diritti", confidence |-> 85]
    ELSE [key |-> "default", category |-> "generale", confidence |-> 70]

\* Sources with the two entries the other way round
SourcesSwapped ==
    << [title |-> "Ministero Interno", url |-> "https://www.interno.gov.it"],
       [title |-> "JOKKO KB", url |-> "https://ym.vercel.app"] >>

\* the sources list of lines 117-120
Sources ==
    << [title |-> "JOKKO KB", url |-> "https://ym.vercel.app"],
       [title |-> "Ministero Interno", url |-> "https://www.interno.gov.it"] >>

\* line 86 testing the language map instead of the response table
EffectiveLanguageDeclared(chat_request) ==
    IF Has(SUPPORTED_LANGUAGES, chat_request.language)
    THEN chat_request.language
    ELSE "it"

\* line 86
EffectiveLanguage(chat_request) ==
    IF Has(SAMPLE_RESPONSES, chat_request.language)
    THEN chat_request.language
    ELSE "it"

\* the try body with line 87 reading the Italian table whatever the language
chat_try_italian(chat_request) ==
    LET message  == lower(chat_request.message)
        language == EffectiveLanguage(chat_request)
    IN  IF ~Has(SAMPLE_RESPONSES, "it")
        THEN Raise(KeyError("it"))
        ELSE LET answers == Get(SAMPLE_RESPONSES, "it")
                 branch  == Branch(message)
             IN  IF ~Has(answers, branch.key)
                 THEN Raise(KeyError(branch.key))
                 ELSE Return(ChatResponse(Get(answers, branch.key), language,
                                          Sources, branch.category,
                                          branch.confidence))

\* the try body, lines 85-123
chat_try(chat_request) ==
    LET message  == lower(chat_request.message)
        language == EffectiveLanguage(chat_request)
    IN  IF ~Has(SAMPLE_RESPONSES, language)
        THEN Raise(KeyError(language))
        ELSE LET answers == Get(SAMPLE_RESPONSES, language)
                 branch  == Branch(message)
             IN  IF ~Has(answers, branch.key)
                 THEN Raise(KeyError(branch.key))
                 ELSE Return(ChatResponse(Get(answers, branch.key), language,
                                          Sources, branch.category,
                                          branch.confidence))

\* the except clause with a fixed detail, the text of e left out
chat_except_fixed(e) == HTTPException(500, "Errore: ")

\* the except clause, lines 124-125
chat_except(e) == HTTPException(500, "Errore: " \o e.str)

\* the handler, lines 83-125
chat(chat_request) ==
    LET r == chat_try(chat_request)
    IN  IF r.raised THEN chat_except(r.exc) ELSE Ok(r.value)

-----------------------------------------------------------------------------
(* GET / and GET /api/health                                               *)

\* lines 67-72
root ==
    Ok([message   |-> "JOKKO AI - La tua voce, la tua strada",
        services  |-> Keys(Get(SAMPLE_RESPONSES, "it")),
        languages |-> SUPPORTED_LANGUAGES])

\* health() listing only the languages the response table has content for
health_content_only ==
    Ok([status    |-> "ok",
        message   |-> "JOKKO AI funzionante",
        languages |-> SelectSeq(SUPPORTED_LANGUAGES,
                                LAMBDA kv : Has(SAMPLE_RESPONSES, kv[1]))])

\* lines 75-80
health ==
    Ok([status    |-> "ok",
        message   |-> "JOKKO AI funzionante",
        languages |-> SUPPORTED_LANGUAGES])

-----------------------------------------------------------------------------
(* The request model, lines 7-10, and the requests the clients send.       *)

\* user_id: Optional[str] is <<>> for None and <<u>> for the str u
None == <<>>

\* ChatRequest(**body): the defaults of lines 9-10 fill the absent fields
ChatRequest(body) ==
    [message  |-> body.message,
     language |-> IF "language" \in DOMAIN body THEN body.language ELSE "it",
     user_id  |-> IF "user_id" \in DOMAIN body THEN <<body.user_id>> ELSE None]

\* the words messages are put together from: the twenty keywords, keywords
\* in other letter case, and words and word pieces that hold no keyword
Words ==
    { <<"p","e","r","m","e","s","s","o">>, <<"s","o","g","g","i","o","r","n","o">>,
      <<"s","é","j","o","u","r">>, <<"p","e","r","m","i","t">>,
      <<"l","a","v","o","r","o">>, <<"j","o","b">>, <<"w","o","r","k">>,
      <<"e","m","p","l","o","i">>,
      <<"c","a","s","a">>, <<"h","o","u","s","e">>,
      <<"l","o","g","e","m","e","n","t">>, <<"r","e","n","t">>,
      <<"s","a","l","u","t","e">>, <<"h","e","a","l","t","h">>,
      <<"s","a","n","t","é">>, <<"d","o","c","t","o","r">>,
      <<"d","i","r","i","t","t","i">>, <<"r","i","g","h","t","s">>,
      <<"d","r","o","i","t","s">>, <<"l","e","g","a","l">>,
      <<"P","E","R","M","E","S","S","O">>, <<"S","É","J","O","U","R">>,
      <<"W","o","r","k">>, <<"S","A","N","T","É">>, <<"L","E","G","A","L">>,
      <<" ">>, <<"h","e","l","l","o">>, <<"p","e","r">>, <<"m","i","t">>,
      <<"c","u","r">>, <<"n","e","t">> }

RECURSIVE MessagesOf(_)
MessagesOf(n) ==
    IF n = 0 THEN { <<>> }
    ELSE MessagesOf(n - 1) \cup { m \o w : m \in MessagesOf(n - 1), w \in Words }

Messages == MessagesOf(MaxWords)

\* the messages sent in every language
FewMessages ==
    { <<>>, <<"h","e","l","l","o">>, <<"C","a","s","a">>,
      <<"P","E","R","M","E","S","S","O"," ","l","a","v","o","r","o">> }

\* the keys of SAMPLE_RESPONSES, the other eight keys of
\* SUPPORTED_LANGUAGES, and codes neither dict holds
Languages ==
    { "it", "en", "fr", "wo", "bm", "ha", "am", "ti", "lg", "ff", "so",
      "de", "IT", "" }

FewLanguages == { "it", "en", "fr", "de" }

UserIds == { "u1", "u2" }

\* the JSON bodies of POST /api/chat: every message in a few languages,
\* and a few messages in every language, with and without the optional fields
ChatBodies ==
    { [message |-> m, language |-> l] : m \in Messages, l \in FewLanguages }
    \cup { [message |-> m, language |-> l, user_id |-> u] :
             m \in FewMessages, l \in Languages, u \in UserIds }
    \cup { [message |-> m] : m \in FewMessages }

\* the bodies of the requests that run side by side
FewChatBodies ==
    LET ms == { <<"h","e","l","l","o">>,
                <<"P","E","R","M","E","S","S","O"," ","l","a","v","o","r","o">> }
    IN  { [message |-> m, language |-> "wo", user_id |-> u] :
            m \in ms, u \in UserIds }
        \cup { [message |-> m, language |-> "en"] : m \in ms }
        \cup { [message |-> m] : m \in ms }

ChatRoute == "POST /api/chat"

RootRoute == "GET /"

HealthRoute == "GET /api/health"

\* exceptions the interpreter itself can raise inside the try block, at the
\* allocation of line 85 or the calls of lines 89-114
RuntimeErrors ==
    { [type |-> "MemoryError", str |-> ""],
      [type |-> "RecursionError",
       str  |-> "maximum recursion depth exceeded while calling a Python object"] }

-----------------------------------------------------------------------------
(* The server.                                                             *)

Init ==
    /\ SUPPORTED_LANGUAGES = SupportedLanguagesLiteral
    /\ SAMPLE_RESPONSES = SampleResponsesLiteral
    /\ requests = <<>>
    /\ outcomes = <<>>
    /\ faults = <<>>

\* a request arrives and waits for its handler
Receive(route, body) ==
    /\ Len(requests) < MaxRequests
    /\ requests' = Append(requests, [route |-> route, body |-> body])
    /\ outcomes' = Append(outcomes, Pending)
    /\ faults' = Append(faults, <<>>)
    /\ UNCHANGED tables

ReceiveChat == \E body \in FewChatBodies : Receive(ChatRoute, ChatRequest(body))

ReceiveRoot == Receive(RootRoute, <<>>)

ReceiveHealth == Receive(HealthRoute, <<>>)

Waiting(i, route) ==
    /\ i \in 1..Len(requests)
    /\ requests[i].route = route
    /\ outcomes[i] = Pending

\* Chat with lines 86-87 written as
\* SAMPLE_RESPONSES.setdefault(language, SAMPLE_RESPONSES["it"]): the first
\* request in a language without content adds that language to the table
ChatSetdefault(i) ==
    /\ Waiting(i, ChatRoute)
    /\ outcomes' = [outcomes EXCEPT ![i] = chat(requests[i].body)]
    /\ SAMPLE_RESPONSES' =
           IF Has(SAMPLE_RESPONSES, requests[i].body.language)
           THEN SAMPLE_RESPONSES
           ELSE Append(SAMPLE_RESPONSES,
                       <<requests[i].body.language, Get(SAMPLE_RESPONSES, "it")>>)
    /\ UNCHANGED <<SUPPORTED_LANGUAGES, requests, faults>>

\* the event loop runs chat() for request i; the handler holds no await, so
\* it runs to its end before any other handler starts
Chat(i) ==
    /\ Waiting(i, ChatRoute)
    /\ outcomes' = [outcomes EXCEPT ![i] = chat(requests[i].body)]
    /\ UNCHANGED <<tables, requests, faults>>

\* chat() for request i, with the interpreter raising e inside the try block
ChatFault(i, e) ==
    /\ Waiting(i, ChatRoute)
    /\ faults' = [faults EXCEPT ![i] = <<e>>]
    /\ outcomes' = [outcomes EXCEPT ![i] = chat_except(e)]
    /\ UNCHANGED <<tables, requests>>

Root(i) ==
    /\ Waiting(i, RootRoute)
    /\ outcomes' = [outcomes EXCEPT ![i] = root]
    /\ UNCHANGED <<tables, requests, faults>>

Health(i) ==
    /\ Waiting(i, HealthRoute)
    /\ outcomes' = [outcomes EXCEPT ![i] = health]
    /\ UNCHANGED <<tables, requests, faults>>

Next ==
    \/ ReceiveChat
    \/ ReceiveRoot
    \/ ReceiveHealth
    \/ \E i \in 1..MaxRequests : Chat(i)
    \/ \E i \in 1..MaxRequests : Root(i)
    \/ \E i \in 1..MaxRequests : Health(i)

Spec == Init /\ [][Next]_vars

\* one POST /api/chat request, any body
InitChat ==
    /\ SUPPORTED_LANGUAGES = SupportedLanguagesLiteral
    /\ SAMPLE_RESPONSES = SampleResponsesLiteral
    /\ \E body \in ChatBodies :
         requests = << [route |-> ChatRoute, body |-> ChatRequest(body)] >>
    /\ outcomes = << Pending >>
    /\ faults = << <<>> >>

NextChat == Chat(1)

SpecChat == InitChat /\ [][NextChat]_vars

\* one POST /api/chat request, with the interpreter free to fail in it
NextFault ==
    \/ Chat(1)
    \/ \E e \in RuntimeErrors : ChatFault(1, e)

SpecFault == InitChat /\ [][NextFault]_vars

\* two POST /api/chat requests in one language whose messages differ only
\* in letter case, handled in either order
InitPair ==
    /\ SUPPORTED_LANGUAGES = SupportedLanguagesLiteral
    /\ SAMPLE_RESPONSES = SampleResponsesLiteral
    /\ \E m \in Messages, l \in { "fr", "wo" } :
         \E v \in { upper(m), lower(m) } \ { m } :
           requests = << [route |-> ChatRoute,
                          body  |-> ChatRequest([message |-> m, language |-> l])],
                         [route |-> ChatRoute,
                          body  |-> ChatRequest([message |-> v, language |-> l])] >>
    /\ outcomes = << Pending, Pending >>
    /\ faults = << <<>>, <<>> >>

NextPair ==
    \/ Chat(1)
    \/ Chat(2)

SpecPair == InitPair /\ [][NextPair]_vars

-----------------------------------------------------------------------------
(* What the specification says of the classification: the categories in    *)
(* their order of priority, each with its keywords and its confidence.     *)

Order == << "permesso_soggiorno", "lavoro", "casa", "sanita", "diritti" >>

KeywordsOf ==
    [permesso_soggiorno |->
        { <<"p","e","r","m","e","s","s","o">>, <<"s","o","g","g","i","o","r","n","o">>,
          <<"s","é","j","o","u","r">>, <<"p","e","r","m","i","t">> },
     lavoro |->
        { <<"l","a","v","o","r","o">>, <<"j","o","b">>, <<"w","o","r","k">>,
          <<"e","m","p","l","o","i">> },
     casa |->
        { <<"c","a","s","a">>, <<"h","o","u","s","e">>,
          <<"l","o","g","e","m","e","n","t">>, <<"r","e","n","t">> },
     sanita |->
        { <<"s","a","l","u","t","e">>, <<"h","e","a","l","t","h">>,
          <<"s","a","n","t","é">>, <<"d","o","c","t","o","r">> },
     diritti |->
        { <<"d","i","r","i","t","t","i">>, <<"r","i","g","h","t","s">>,
          <<"d","r","o","i","t","s">>, <<"l","e","g","a","l">> }]

ConfidenceOf ==
    [permesso_soggiorno |-> 90, lavoro |-> 85, casa |-> 85, sanita |-> 85,
     diritti |-> 85]

\* the places in Order of the categories a keyword of which is a substring
\* of the lowercased message
Hits(message) ==
    { c \in 1..Len(Order) :
        \E k \in KeywordsOf[Order[c]] : In(k, lower(message)) }

Least(S) == CHOOSE x \in S : \A y \in S : x <= y

ResponseKeys == { "it", "en", "fr" }

\* the canned string the response table stores for (l, key)
Canned(l, key) == Get(Get(SampleResponsesLiteral, l), key)

\* the chat requests that were answered
DoneChats ==
    { i \in 1..Len(requests) :
        requests[i].route = ChatRoute /\ outcomes[i].status # 0 }

DoneHealths ==
    { i \in 1..Len(requests) :
        requests[i].route = HealthRoute /\ outcomes[i].status # 0 }

-----------------------------------------------------------------------------
\* C1: the category and the confidence returned are those of the earliest
\* category of the fixed order a keyword of which is a substring of the
\* lowercased message, whatever later categories also match; a message with
\* a residence-permit keyword and a work keyword gets permesso_soggiorno, 0.9.
C1_FirstMatchWins ==
    \A i \in DoneChats :
        LET hits == Hits(requests[i].body.message)
        IN  /\ hits # {} =>
                /\ outcomes[i].status = 200
                /\ outcomes[i].body.category = Order[Least(hits)]
                /\ outcomes[i].body.confidence = ConfidenceOf[Order[Least(hits)]]
            /\ {1, 2} \subseteq hits =>
                /\ outcomes[i].status = 200
                /\ outcomes[i].body.category = "permesso_soggiorno"
                /\ outcomes[i].body.confidence = 90

\* a message with a residence-permit keyword and a work keyword was answered
C1_Witness ==
    \E i \in DoneChats :
        /\ {1, 2} \subseteq Hits(requests[i].body.message)
        /\ outcomes[i].body.category = "permesso_soggiorno"

\* C2 as stated: in a supported language, a message holding a keyword of
\* category C is answered with category C and the canned string of (L, C).
C2_AnyKeywordOfCategory ==
    \A i \in DoneChats :
        \A c \in Hits(requests[i].body.message) :
            requests[i].body.language \in ResponseKeys =>
                /\ outcomes[i].status = 200
                /\ outcomes[i].body.category = Order[c]
                /\ outcomes[i].body.response =
                       Canned(requests[i].body.language, Order[c])

\* C2: in a supported language L, a message that holds a keyword of category
\* C and no keyword of a category earlier in the order is answered with
\* category C and the canned string the response table stores for (L, C).
C2_KeywordOfCategory ==
    \A i \in DoneChats :
        \A c \in Hits(requests[i].body.message) :
            /\ requests[i].body.language \in ResponseKeys
            /\ \A d \in Hits(requests[i].body.message) : c <= d
            => /\ outcomes[i].status = 200
               /\ outcomes[i].body.category = Order[c]
               /\ outcomes[i].body.response =
                      Canned(requests[i].body.language, Order[c])

\* a French request holding only a health keyword got the French health text
C2_Witness ==
    \E i \in DoneChats :
        /\ requests[i].body.language = "fr"
        /\ Hits(requests[i].body.message) = {4}
        /\ outcomes[i].body.response = Canned("fr", "sanita")

\* C3: a message holding no keyword is answered with category generale,
\* confidence 0.7 and the default string of the language the answer is in.
C3_NoKeyword ==
    \A i \in DoneChats :
        Hits(requests[i].body.message) = {} =>
            /\ outcomes[i].status = 200
            /\ outcomes[i].body.category = "generale"
            /\ outcomes[i].body.confidence = 70
            /\ outcomes[i].body.response =
                   Canned(IF requests[i].body.language \in ResponseKeys
                          THEN requests[i].body.language ELSE "it", "default")

\* an English request without any keyword got the English default
C3_Witness ==
    \E i \in DoneChats :
        /\ requests[i].body.language = "en"
        /\ requests[i].body.message # <<>>
        /\ Hits(requests[i].body.message) = {}
        /\ outcomes[i].body.response = Canned("en", "default")

\* C4: a request in a language that is no key of the response table is
\* answered, without error, in language it with the text of the Italian
\* table; a request in it, en or fr is answered in the language asked for.
C4_LanguageFallback ==
    \A i \in DoneChats :
        LET asked == requests[i].body.language
            hits  == Hits(requests[i].body.message)
            key   == IF hits = {} THEN "default" ELSE Order[Least(hits)]
        IN  /\ outcomes[i].status = 200
            /\ asked \in ResponseKeys => outcomes[i].body.language = asked
            /\ asked \notin ResponseKeys =>
                /\ outcomes[i].body.language = "it"
                /\ outcomes[i].body.response = Canned("it", key)

\* a request in Wolof, declared in the language map, was answered in Italian
C4_Witness ==
    \E i \in DoneChats :
        /\ requests[i].body.language = "wo"
        /\ Has(SUPPORTED_LANGUAGES, "wo")
        /\ outcomes[i].body.language = "it"

\* C5: every ChatResponse carries the two fixed sources, JOKKO KB first and
\* Ministero Interno second.
C5_FixedSources ==
    \A i \in DoneChats :
        outcomes[i].status = 200 =>
            /\ Len(outcomes[i].body.sources) = 2
            /\ outcomes[i].body.sources[1] =
                   [title |-> "JOKKO KB", url |-> "https://ym.vercel.app"]
            /\ outcomes[i].body.sources[2] =
                   [title |-> "Ministero Interno",
                    url   |-> "https://www.interno.gov.it"]

\* an answer about rights, in a language without content, carries the sources
C5_Witness ==
    \E i \in DoneChats :
        /\ outcomes[i].status = 200
        /\ outcomes[i].body.category = "diritti"
        /\ requests[i].body.language = "de"
        /\ Len(outcomes[i].body.sources) = 2

\* the ChatResponse of lines 12-17 with every field set
CompleteChatResponse(o) ==
    /\ o.status = 200
    /\ DOMAIN o.body = { "response", "language", "sources", "category", "confidence" }
    /\ o.body.language \in ResponseKeys
    /\ o.body.response = Canned(o.body.language,
                                IF o.body.category = "generale" THEN "default"
                                ELSE o.body.category)

\* C6: an exception raised inside the handler is answered with HTTP 500 and
\* the detail "Errore: " followed by the text of the exception; every
\* request is answered either with a complete ChatResponse or with that
\* error, never with anything else.
C6_FailureBecomesError ==
    \A i \in DoneChats :
        /\ faults[i] # <<>> =>
               /\ outcomes[i].status = 500
               /\ outcomes[i].body = [detail |-> "Errore: " \o faults[i][1].str]
        /\ faults[i] = <<>> => CompleteChatResponse(outcomes[i])

\* the interpreter ran out of stack inside a handler, and the client got 500
C6_Witness ==
    \E i \in DoneChats :
        /\ faults[i] # <<>>
        /\ faults[i][1].type = "RecursionError"
        /\ outcomes[i].status = 500

\* C7: two chat requests with the same message and language get the same
\* answer, whatever their user_id and whatever ran before or between them,
\* and no step of any handler changes the language map or the response table.
C7_Stateless ==
    /\ [](\A i, j \in DoneChats :
            /\ requests[i].body.message = requests[j].body.message
            /\ requests[i].body.language = requests[j].body.language
            => outcomes[i] = outcomes[j])
    /\ [][SUPPORTED_LANGUAGES' = SUPPORTED_LANGUAGES
          /\ SAMPLE_RESPONSES' = SAMPLE_RESPONSES]_vars

\* two users asked the same thing in Wolof, another request was handled
\* between theirs, and both were answered
C7_Witness ==
    \E i, j \in DoneChats :
        /\ i + 1 < j
        /\ outcomes[i + 1].status # 0
        /\ requests[i].body.message = requests[j].body.message
        /\ requests[i].body.language = "wo"
        /\ requests[j].body.language = "wo"
        /\ requests[i].body.user_id # requests[j].body.user_id
        /\ outcomes[i].status = 200

ElevenLanguages ==
    { <<"it", "Italiano">>, <<"fr", "Français">>, <<"en", "English">>,
      <<"wo", "Wolof">>, <<"bm", "Bambara">>, <<"ha", "Hausa">>,
      <<"am", "Amarico">>, <<"ti", "Tigrinya">>, <<"lg", "Lingala">>,
      <<"ff", "Pulaar">>, <<"so", "Soninke">> }

\* C8: whatever requests came before it, GET /api/health answers status ok
\* and the language map of eleven entries.
C8_HealthAlwaysFull ==
    \A i \in DoneHealths :
        /\ outcomes[i].status = 200
        /\ outcomes[i].body.status = "ok"
        /\ Len(outcomes[i].body.languages) = 11
        /\ { outcomes[i].body.languages[k] : k \in 1..11 } = ElevenLanguages

\* a health check was answered after a root and a chat request had been
C8_Witness ==
    \E i \in DoneHealths :
        /\ i > 2
        /\ requests[i - 1].route = ChatRoute
        /\ outcomes[i - 1].status = 200
        /\ requests[i - 2].route = RootRoute
        /\ outcomes[i - 2].status = 200
        /\ outcomes[i].body.status = "ok"

\* the same letter, in either case
SameLetter(x, y) ==
    \/ x = y
    \/ x \in DOMAIN UpperMap /\ UpperMap[x] = y
    \/ y \in DOMAIN UpperMap /\ UpperMap[y] = x

DiffersOnlyInCase(a, b) ==
    /\ Len(a) = Len(b)
    /\ \A k \in 1..Len(a) : SameLetter(a[k], b[k])

\* C9: in one language, two messages that differ only in letter case, the
\* accented letters included, get the same category, confidence and text.
C9_CaseInsensitive ==
    \A i, j \in DoneChats :
        /\ requests[i].body.language = requests[j].body.language
        /\ DiffersOnlyInCase(requests[i].body.message, requests[j].body.message)
        => /\ outcomes[i].status = outcomes[j].status
           /\ outcomes[i].body = outcomes[j].body

\* SANTÉ and santé were both answered with the health text
C9_Witness ==
    \E i, j \in DoneChats :
        /\ requests[i].body.message # requests[j].body.message
        /\ In(<<"S","A","N","T","É">>, requests[i].body.message)
        /\ In(<<"s","a","n","t","é">>, requests[j].body.message)
        /\ outcomes[i].body.category = "sanita"
        /\ outcomes[j].body.category = "sanita"

SixKeys == { "permesso_soggiorno", "lavoro", "casa", "sanita", "diritti", "default" }

\* C10: every language table of the response table has the six keys and
\* the effective language is a key of the response table, so every request
\* is answered with a complete ChatResponse and never with HTTP 500.
C10_NeverFails ==
    /\ \A l \in 1..Len(SAMPLE_RESPONSES) :
           { SAMPLE_RESPONSES[l][2][k][1] : k \in 1..Len(SAMPLE_RESPONSES[l][2]) }
               = SixKeys
    /\ \A i \in 1..Len(requests) :
           requests[i].route = ChatRoute =>
               Has(SAMPLE_RESPONSES, EffectiveLanguage(requests[i].body))
    /\ \A i \in DoneChats :
           /\ outcomes[i].status = 200
           /\ DOMAIN outcomes[i].body =
                  { "response", "language", "sources", "category", "confidence" }

\* a request without keyword, in a language code no table holds, was answered
C10_Witness ==
    \E i \in DoneChats :
        /\ requests[i].body.language = "IT"
        /\ outcomes[i].status = 200
        /\ outcomes[i].body.category = "generale"

====
